---- MODULE Spec2Model ----
(***************************************************************************)
(* lemon::Suurballe (lemon/suurballe.h): arc-disjoint s->t paths of        *)
(* minimum total length by successive shortest paths in the residual       *)
(* network, with the heap of lemon/concepts/heap.h.                        *)
(*                                                                         *)
(* The digraph is the sequence _graph of arcs <<source, target>>; its      *)
(* nodes are the ends of its arcs.  An arc is its index in that sequence   *)
(* and OutArcIt, InArcIt and ArcIt visit arcs in index order.  INVALID is  *)
(* the arc 0.                                                              *)
(* A map that has not been allocated is the empty sequence, and a map      *)
(* entry that was allocated but never written is the string "uninit".     *)
(***************************************************************************)
EXTENDS Integers, Sequences, FiniteSets, TLC

\* ---------------------------------------------------------------- bounds
MaxLen == 1
MaxK == 2
MaxRuns == 2

\* ------------------------------------------------------------- constants
INVALID == 0
IN_HEAP == 0
PRE_HEAP == -1
POST_HEAP == -2

\* The digraphs the model runs on, as arc lists.
\*  1: two routes that share the arc 2->3, a second path must cancel it
\*  2, 3: as 1 with the back arc 3->2, so that 2->3->2 is a directed cycle,
\*        in two iteration orders
\*  4: parallel arcs, a back arc into the source, a loop, a dead end
\*  5: a triangle with a direct arc and an arc into the source side
\*  6: as 1 with node 5 between 3 and 4: a second search cancels 2->3 and
\*     does not touch node 5, which the first path went through
Topologies ==
  { << <<1, 2>>, <<1, 3>>, <<2, 3>>, <<2, 4>>, <<3, 4>> >>,
    << <<1, 2>>, <<1, 3>>, <<2, 4>>, <<2, 3>>, <<3, 4>>, <<3, 2>> >>,
    << <<1, 2>>, <<1, 3>>, <<2, 4>>, <<2, 3>>, <<3, 2>>, <<3, 4>> >>,
    << <<1, 3>>, <<1, 3>>, <<3, 1>>, <<2, 2>>, <<1, 2>> >>,
    << <<1, 2>>, <<2, 4>>, <<1, 4>>, <<3, 1>> >>,
    << <<1, 2>>, <<2, 3>>, <<3, 5>>, <<5, 4>>, <<1, 3>>, <<2, 4>> >> }

\* The digraphs on which a run is repeated: 1, and a triangle with parallel
\* arcs and an arc back into the source
TopologiesAgain ==
  { << <<1, 2>>, <<1, 3>>, <<2, 3>>, <<2, 4>>, <<3, 4>> >>,
    << <<1, 2>>, <<2, 3>>, <<1, 3>>, <<3, 1>>, <<1, 3>> >> }

VARIABLES
  _graph,       \* const Digraph &_graph: the arcs, <<source, target>> each
  _length,      \* const LengthMap &_length: arc -> length
  _flow,        \* FlowMap *_flow: arc -> 0/1, <<>> while not allocated
  _potential,   \* PotentialMap *_potential: node -> Length, <<>> likewise
  _source,      \* Node _source
  _target,      \* Node _target
  k,            \* the parameter k of findFlow
  _path_num,    \* int _path_num
  _pred,        \* PredMap _pred: node -> arc
  paths,        \* std::vector<SimplePath> paths: sequences of arcs
  heap,         \* the Heap of the running ResidualDijkstra::run
  _dist,        \* ResidualDijkstra::_dist
  _proc_nodes,  \* ResidualDijkstra::_proc_nodes
  pc,           \* the position of the caller and of findFlow
  hlog,         \* the operations applied to the current heap, in order
  oracle,       \* the heap's tie-breaking: operation history -> top()
  runs,         \* how many times init() has been called
  first         \* what the first run left, once a second one starts

vars == << _graph, _length, _flow, _potential, _source, _target, k, _path_num,
           _pred, paths, heap, _dist, _proc_nodes, pc, hlog, oracle, runs,
           first >>

\* ------------------------------------------------------------ the digraph
Nodes == UNION { {_graph[e][1], _graph[e][2]} : e \in 1..Len(_graph) }

Arcs == 1..Len(_graph)

ArcIds == [e \in Arcs |-> e]

source(e) == _graph[e][1]

target(e) == _graph[e][2]

\* OutArcIt(_graph, u): the arcs leaving u, in iteration order
OutArcs(u) == SelectSeq(ArcIds, LAMBDA e : source(e) = u)

\* InArcIt(_graph, u): the arcs entering u, in iteration order
InArcs(u) == SelectSeq(ArcIds, LAMBDA e : target(e) = u)

\* ---------------------------------------------------------------- the heap
\* A heap is [st: node -> state, pr: node -> priority]; pr is kept 0 for the
\* items that are not in the heap.
HeapNew == [st |-> [n \in Nodes |-> PRE_HEAP], pr |-> [n \in Nodes |-> 0]]

HeapItems(h) == {n \in Nodes : h.st[n] = IN_HEAP}

HeapEmpty(h) == HeapItems(h) = {}

HeapState(h, i) == h.st[i]

HeapPush(h, i, p) == [st |-> [h.st EXCEPT ![i] = IN_HEAP],
                      pr |-> [h.pr EXCEPT ![i] = p]]

HeapDecrease(h, i, p) == [h EXCEPT !.pr[i] = p]

HeapPop(h, i) == [st |-> [h.st EXCEPT ![i] = POST_HEAP],
                  pr |-> [h.pr EXCEPT ![i] = 0]]

\* prio(): the minimum priority
HeapPrio(h) ==
  CHOOSE p \in {h.pr[n] : n \in HeapItems(h)} :
    \A n \in HeapItems(h) : p <= h.pr[n]

\* top(): an item having minimum priority; which one, among several, is the
\* heap's business
HeapTops(h) == {n \in HeapItems(h) : h.pr[n] = HeapPrio(h)}

\* The heap is a deterministic structure: after the same operations it gives
\* the same top.  oracle records the tops it has given so far.
TopIs(u) ==
  /\ u \in HeapTops(heap)
  /\ hlog \in DOMAIN oracle => u = oracle[hlog]

Remember(u) ==
  IF Cardinality(HeapTops(heap)) > 1 THEN (hlog :> u) @@ oracle ELSE oracle

\* ------------------------------------------------------------ construction
Constructed(graphs) ==
  /\ _graph \in graphs
  /\ _length \in [1..Len(_graph) -> 0..MaxLen]
  /\ _flow = << >>
  /\ _potential = << >>
  /\ _source = "uninit"
  /\ _target = "uninit"
  /\ k = "uninit"
  /\ _path_num = "uninit"
  /\ _pred = [n \in Nodes |-> "uninit"]
  /\ paths = << >>
  /\ heap = HeapNew
  /\ _dist = [n \in Nodes |-> "uninit"]
  /\ _proc_nodes = << >>
  /\ pc = "constructed"
  /\ hlog = << >>
  /\ oracle = << >>
  /\ runs = 0
  /\ first = << >>

Init == Constructed(Topologies)

InitAgain == Constructed(TopologiesAgain)

\* -------------------------------------------------------------------- init
\* InitFlow that allocates a zero map but leaves an existing map as it is
InitFlowKept == IF _flow = << >> THEN [e \in Arcs |-> 0] ELSE _flow

InitFlow == [e \in Arcs |-> 0]

InitPotential == [n \in Nodes |-> 0]

\* What a run left behind, for the comparison with the next one
TotalLengthOf(f) ==
  LET Sum[i \in 0..Len(_graph)] ==
        IF i = 0 THEN 0 ELSE Sum[i - 1] + f[i] * _length[i]
  IN  Sum[Len(_graph)]

totalLength == TotalLengthOf(_flow)

\* the body of init(s)
Initialize(s) ==
  /\ _source' = s
  /\ _flow' = InitFlow
  /\ _potential' = InitPotential
  /\ pc' = "inited"
  /\ runs' = runs + 1
  /\ UNCHANGED << _graph, _length, _target, k, _path_num, _pred, paths, heap,
                  _dist, _proc_nodes, hlog, oracle >>

\* init(s), after construction
init(s) ==
  /\ pc = "constructed"
  /\ Initialize(s)
  /\ first' = first

\* init(s) for another run(), with the same source, once findPaths() has
\* returned; what the first run left is kept for comparison
initAgain(s) ==
  /\ pc = "pathsdone"
  /\ runs < MaxRuns
  /\ s = _source
  /\ Initialize(s)
  /\ first' = IF runs = 1
              THEN [path_num |-> _path_num, total |-> totalLength,
                    flow |-> _flow, target |-> _target, k |-> k]
              ELSE first

\* ---------------------------------------------------------------- findFlow
\* findFlow(t, k) up to the first test of its loop.  The new ResidualDijkstra
\* has a fresh _dist and an empty _proc_nodes.  A second run repeats the
\* arguments of the first.
findFlow(t, kk) ==
  /\ pc = "inited"
  /\ runs > 1 => t = first.target /\ kk = first.k
  /\ _target' = t
  /\ k' = kk
  /\ _dist' = [n \in Nodes |-> "uninit"]
  /\ _proc_nodes' = << >>
  /\ _path_num' = 0
  /\ pc' = "loop"
  /\ UNCHANGED << _graph, _length, _flow, _potential, _source, _pred, paths,
                  heap, hlog, oracle, runs, first >>

\* while (_path_num < k) is false: findFlow returns _path_num
findFlowReturn ==
  /\ pc = "loop"
  /\ ~(_path_num < k)
  /\ pc' = "flowdone"
  /\ UNCHANGED << _graph, _length, _flow, _potential, _source, _target, k,
                  _path_num, _pred, paths, heap, _dist, _proc_nodes, hlog,
                  oracle, runs, first >>

\* ------------------------------------------------- ResidualDijkstra::run
\* The search state the two arc loops thread through: the heap, the pred map
\* and the log of heap operations.
SearchState(h, p, l) == [heap |-> h, pred |-> p, log |-> l]

\* while (_path_num < k) is true: run() is entered; it builds its heap,
\* pushes the source and clears pred[s] and the processed list
runBegin ==
  /\ pc = "loop"
  /\ _path_num < k
  /\ heap' = HeapPush(HeapNew, _source, 0)
  /\ hlog' = << <<"push", _source, 0>> >>
  /\ _pred' = [_pred EXCEPT ![_source] = INVALID]
  /\ _proc_nodes' = << >>
  /\ pc' = "dijkstra"
  /\ UNCHANGED << _graph, _length, _flow, _potential, _source, _target, k,
                  _path_num, paths, _dist, oracle, runs, first >>

\* the switch on heap.state(v), for the candidate priority nd through arc e
Relax(S, v, nd, e) ==
  IF HeapState(S.heap, v) = PRE_HEAP
  THEN SearchState(HeapPush(S.heap, v, nd), [S.pred EXCEPT ![v] = e],
                   Append(S.log, <<"push", v, nd>>))
  ELSE IF HeapState(S.heap, v) = IN_HEAP /\ nd < S.heap.pr[v]
  THEN SearchState(HeapDecrease(S.heap, v, nd), [S.pred EXCEPT ![v] = e],
                   Append(S.log, <<"decrease", v, nd>>))
  ELSE S

\* the candidate priority of target(e) through the forward arc e
OutPrio(d, e) == d + _length[e] - _potential[target(e)]

\* the candidate priority of source(e) through the arc e used backwards
InPrio(d, e) == d - _length[e] - _potential[source(e)]

\* for (OutArcIt e(_graph, u); ...) if (_flow[e] == 0) ...
RECURSIVE TraverseOut(_, _, _)
TraverseOut(S, d, es) ==
  IF es = << >> THEN S
  ELSE LET e == Head(es)
       IN  TraverseOut(IF _flow[e] = 0
                       THEN Relax(S, target(e), OutPrio(d, e), e)
                       ELSE S,
                       d, Tail(es))

\* the scan of the incoming arcs without the test of the flow
RECURSIVE TraverseInAnyFlow(_, _, _)
TraverseInAnyFlow(S, d, es) ==
  IF es = << >> THEN S
  ELSE LET e == Head(es)
       IN  TraverseInAnyFlow(Relax(S, source(e), InPrio(d, e), e), d, Tail(es))

\* for (InArcIt e(_graph, u); ...) if (_flow[e] == 1) ...
RECURSIVE TraverseIn(_, _, _)
TraverseIn(S, d, es) ==
  IF es = << >> THEN S
  ELSE LET e == Head(es)
       IN  TraverseIn(IF _flow[e] = 1
                      THEN Relax(S, source(e), InPrio(d, e), e)
                      ELSE S,
                      d, Tail(es))

\* one pass of the while loop: the top u is not the target; it is popped,
\* recorded as processed, and its outgoing and then incoming arcs are scanned
processNode ==
  /\ pc = "dijkstra"
  /\ ~HeapEmpty(heap)
  /\ \E u \in Nodes :
       /\ TopIs(u)
       /\ u # _target
       /\ LET d  == HeapPrio(heap) + _potential[u]
              S0 == SearchState(HeapPop(heap, u), _pred,
                                Append(hlog, <<"pop", u, 0>>))
              S1 == TraverseOut(S0, d, OutArcs(u))
              S2 == TraverseIn(S1, d, InArcs(u))
          IN  /\ _dist' = [_dist EXCEPT ![u] = HeapPrio(heap)]
              /\ _proc_nodes' = Append(_proc_nodes, u)
              /\ heap' = S2.heap
              /\ _pred' = S2.pred
              /\ hlog' = S2.log
       /\ oracle' = Remember(u)
  /\ UNCHANGED << _graph, _length, _flow, _potential, _source, _target, k,
                  _path_num, paths, pc, runs, first >>

\* runFails with the potentials of the processed nodes updated all the same,
\* before the test of heap.empty(), the target's distance taken as 0
runFailsAfterUpdate ==
  /\ pc = "dijkstra"
  /\ HeapEmpty(heap)
  /\ _potential' = [n \in Nodes |->
                      IF \E i \in 1..Len(_proc_nodes) : _proc_nodes[i] = n
                      THEN _potential[n] + _dist[n] ELSE _potential[n]]
  /\ pc' = "flowdone"
  /\ UNCHANGED << _graph, _length, _flow, _source, _target, k, _path_num,
                  _pred, paths, heap, _dist, _proc_nodes, hlog, oracle, runs,
                  first >>

\* if (heap.empty()) return false; and findFlow breaks out of its loop
runFails ==
  /\ pc = "dijkstra"
  /\ HeapEmpty(heap)
  /\ pc' = "flowdone"
  /\ UNCHANGED << _graph, _length, _flow, _potential, _source, _target, k,
                  _path_num, _pred, paths, heap, _dist, _proc_nodes, hlog,
                  oracle, runs, first >>

\* UpdatePotentials with the distances added as they are, the target's
\* distance not taken off
RECURSIVE UpdatePotentialsNoShift(_, _, _, _)
UpdatePotentialsNoShift(pot, proc, dist, t_dist) ==
  IF proc = << >> THEN pot
  ELSE LET x == Head(proc)
       IN  UpdatePotentialsNoShift([pot EXCEPT ![x] = pot[x] + dist[x]],
                                   Tail(proc), dist, t_dist)

\* UpdatePotentials with the sign of the change turned round
RECURSIVE UpdatePotentialsUpwards(_, _, _, _)
UpdatePotentialsUpwards(pot, proc, dist, t_dist) ==
  IF proc = << >> THEN pot
  ELSE LET x == Head(proc)
       IN  UpdatePotentialsUpwards(
             [pot EXCEPT ![x] = pot[x] - dist[x] + t_dist],
             Tail(proc), dist, t_dist)

\* the update that adds the distance to every node, the distance of the
\* target to those not processed: the potential of the target changes
UpdatePotentialsEveryNode(pot, proc, dist, t_dist) ==
  [v \in DOMAIN pot |->
     IF \E i \in 1..Len(proc) : proc[i] = v
     THEN pot[v] + dist[v] ELSE pot[v] + t_dist]

\* for (i ...) _potential[_proc_nodes[i]] += _dist[_proc_nodes[i]] - t_dist
RECURSIVE UpdatePotentials(_, _, _, _)
UpdatePotentials(pot, proc, dist, t_dist) ==
  IF proc = << >> THEN pot
  ELSE LET x == Head(proc)
       IN  UpdatePotentials([pot EXCEPT ![x] = pot[x] + dist[x] - t_dist],
                            Tail(proc), dist, t_dist)

\* the target is on top: the loop ends, the potentials of the processed
\* nodes are updated and run() returns true
runSucceeds ==
  /\ pc = "dijkstra"
  /\ ~HeapEmpty(heap)
  /\ TopIs(_target)
  /\ _potential' = UpdatePotentials(_potential, _proc_nodes, _dist,
                                    HeapPrio(heap))
  /\ oracle' = Remember(_target)
  /\ pc' = "augment"
  /\ UNCHANGED << _graph, _length, _flow, _source, _target, k, _path_num,
                  _pred, paths, heap, _dist, _proc_nodes, hlog, runs, first >>

\* ------------------------------------------------- findFlow: augmentation
\* while ((e = _pred[u]) != INVALID) ...: the flow after the walk from u.
\* A walk that comes back to a node it has left never ends: ok is FALSE then.
\* the walk of findFlow without the cancelling: an arc used backwards keeps
\* its flow
RECURSIVE SetFlowNoCancel(_, _, _)
SetFlowNoCancel(f, u, seen) ==
  LET e == _pred[u]
  IN  IF e = INVALID THEN [ok |-> TRUE, flow |-> f]
      ELSE IF u \in seen THEN [ok |-> FALSE, flow |-> f]
      ELSE IF u = target(e)
      THEN SetFlowNoCancel([f EXCEPT ![e] = 1], source(e), seen \cup {u})
      ELSE SetFlowNoCancel(f, target(e), seen \cup {u})

RECURSIVE SetFlow(_, _, _)
SetFlow(f, u, seen) ==
  LET e == _pred[u]
  IN  IF e = INVALID THEN [ok |-> TRUE, flow |-> f]
      ELSE IF u \in seen THEN [ok |-> FALSE, flow |-> f]
      ELSE IF u = target(e)
      THEN SetFlow([f EXCEPT ![e] = 1], source(e), seen \cup {u})
      ELSE SetFlow([f EXCEPT ![e] = 0], target(e), seen \cup {u})

\* ++_path_num and the flow is set along the path found
augment ==
  /\ pc = "augment"
  /\ _path_num' = _path_num + 1
  /\ LET r == SetFlow(_flow, _target, {})
     IN  /\ _flow' = r.flow
         /\ pc' = IF r.ok THEN "loop" ELSE "hang"
  /\ UNCHANGED << _graph, _length, _potential, _source, _target, k, _pred,
                  paths, heap, _dist, _proc_nodes, hlog, oracle, runs, first >>

\* --------------------------------------------------------------- findPaths
\* for ( ; res_flow[e] == 0; ++e) ; over the arcs es still to scan: the first
\* arc with residual flow, INVALID when the scan runs past the last arc
RECURSIVE FirstFlowArc(_, _)
FirstFlowArc(res, es) ==
  IF es = << >> THEN INVALID
  ELSE IF res[Head(es)] # 0 THEN Head(es)
  ELSE FirstFlowArc(res, Tail(es))

\* while (n != _target) ...: one path, walked from n.  Reading
\* res_flow[INVALID] is undefined: ok is FALSE then.
RECURSIVE WalkPath(_, _, _)
WalkPath(res, n, path) ==
  IF n = _target THEN [ok |-> TRUE, res |-> res, path |-> path]
  ELSE LET e == FirstFlowArc(res, OutArcs(n))
       IN  IF e = INVALID THEN [ok |-> FALSE, res |-> res, path |-> path]
           ELSE WalkPath([res EXCEPT ![e] = 0], target(e), Append(path, e))

\* for (int i = 0; i < _path_num; ++i) ...: the paths i.._path_num-1
RECURSIVE WalkPaths(_, _, _)
WalkPaths(res, i, ps) ==
  IF ~(i < _path_num) THEN [ok |-> TRUE, paths |-> ps]
  ELSE LET w == WalkPath(res, _source, << >>)
       IN  IF w.ok THEN WalkPaths(w.res, i + 1, Append(ps, w.path))
           ELSE [ok |-> FALSE, paths |-> Append(ps, w.path)]

\* findPaths that walks on the flow map itself, not on a copy of it
findPathsInPlace ==
  /\ pc = "flowdone"
  /\ LET r == WalkPaths(_flow, 0, << >>)
     IN  /\ paths' = r.paths
         /\ _flow' = [e \in Arcs |->
                        IF \E i \in 1..Len(r.paths) :
                             \E j \in 1..Len(r.paths[i]) : r.paths[i][j] = e
                        THEN 0 ELSE _flow[e]]
         /\ pc' = IF r.ok THEN "pathsdone" ELSE "undefined"
  /\ UNCHANGED << _graph, _length, _potential, _source, _target, k,
                  _path_num, _pred, heap, _dist, _proc_nodes, hlog, oracle,
                  runs, first >>

\* findPaths(), on a copy res_flow of the flow
findPaths ==
  /\ pc = "flowdone"
  /\ LET r == WalkPaths(_flow, 0, << >>)
     IN  /\ paths' = r.paths
         /\ pc' = IF r.ok THEN "pathsdone" ELSE "undefined"
  /\ UNCHANGED << _graph, _length, _flow, _potential, _source, _target, k,
                  _path_num, _pred, heap, _dist, _proc_nodes, hlog, oracle,
                  runs, first >>

\* ----------------------------------------------------------- specification
Next ==
  \/ \E s \in Nodes : init(s)
  \/ \E t \in Nodes, kk \in 0..MaxK : findFlow(t, kk)
  \/ findFlowReturn
  \/ runBegin
  \/ processNode
  \/ runFails
  \/ runSucceeds
  \/ augment
  \/ findPaths

Spec == Init /\ [][Next]_vars

\* the same, with run() called again on the instance
NextAgain ==
  \/ Next
  \/ \E s \in Nodes : initAgain(s)

SpecAgain == InitAgain /\ [][NextAgain]_vars

\* -------------------------------------------------------------- properties
\* the reduced length of arc e under the current potentials
ReducedLength(e) ==
  _length[e] + _potential[source(e)] - _potential[target(e)]

\* C1: after init(s) and after every iteration of the loop of findFlow,
\* successful or not, every arc without flow has a non-negative reduced
\* length and every arc a = (u,v) with flow has potential(v) - potential(u)
\* >= length(a).  (It holds in every state from init on, also inside a
\* search and between the potential update and the augmentation.)
C1_ReducedLengths ==
  pc # "constructed" =>
    \A e \in Arcs :
      /\ _flow[e] = 0 => ReducedLength(e) >= 0
      /\ _flow[e] = 1 =>
           _potential[target(e)] - _potential[source(e)] >= _length[e]

\* two augmentations have been made, the second one through an arc used
\* backwards, and the potentials have moved
C1_Witness ==
  /\ pc = "loop"
  /\ _path_num = 2
  /\ \E n \in Nodes : _potential[n] # 0
  /\ \E i \in 1..Len(_proc_nodes) :
       LET n == _proc_nodes[i]
       IN  _pred[n] # INVALID /\ source(_pred[n]) = n

\* ---- the reference for C2 and C3: arc-disjoint paths, by enumeration
\* The paths from n to t that avoid the nodes in visited, as arc sequences.
RECURSIVE PathsFrom(_, _, _)
PathsFrom(n, visited, t) ==
  IF n = t THEN {<< >>}
  ELSE UNION { { <<e>> \o p : p \in PathsFrom(target(e),
                                              visited \cup {target(e)}, t) } :
               e \in {a \in Arcs : source(a) = n /\ target(a) \notin visited} }

\* The s->t paths of the digraph: at least one arc, no node twice.  (Arc
\* lengths are non-negative, so walks that repeat a node cannot give a
\* smaller total, and they leave the number of disjoint paths as it is.)
STPaths == PathsFrom(_source, {_source}, _target) \ {<< >>}

ArcsOf(p) == {p[i] : i \in 1..Len(p)}

PathLength(p) ==
  LET Sum[i \in 0..Len(p)] ==
        IF i = 0 THEN 0 ELSE Sum[i - 1] + _length[p[i]]
  IN  Sum[Len(p)]

\* The total lengths of the sets of p pairwise arc-disjoint s->t paths that
\* use no arc of used
RECURSIVE DisjointTotals(_, _)
DisjointTotals(p, used) ==
  IF p = 0 THEN {0}
  ELSE UNION { { PathLength(q) + x :
                 x \in DisjointTotals(p - 1, used \cup ArcsOf(q)) } :
               q \in {r \in STPaths : ArcsOf(r) \cap used = {}} }

Minimum(S) == CHOOSE x \in S : \A y \in S : x <= y

\* M: the maximum number of pairwise arc-disjoint s->t paths
MaxDisjoint ==
  CHOOSE p \in 0..Len(_graph) :
    /\ DisjointTotals(p, {}) # {}
    /\ \A q \in (p + 1)..Len(_graph) : DisjointTotals(q, {}) = {}

\* findFlow has been given a target, and it is the source
SameEnds ==
  /\ pc \in {"loop", "dijkstra", "augment", "flowdone", "pathsdone"}
  /\ _source = _target

\* C2: after run(s, t, k), totalLength() is the minimum, over the sets of
\* pathNum() pairwise arc-disjoint s->t paths, of the total arc length.
C2_TotalLengthIsMinimum ==
  pc = "pathsdone" =>
    /\ DisjointTotals(_path_num, {}) # {}
    /\ totalLength = Minimum(DisjointTotals(_path_num, {}))

\* C2 for distinct source and target: there the statement holds
C2_DistinctEnds == ~SameEnds => C2_TotalLengthIsMinimum

\* C3: findFlow(t, k) after init(s), and run(s, t, k), return min(k, M), M
\* the maximum number of pairwise arc-disjoint s->t paths.
C3_PathNumIsMinKM ==
  pc \in {"flowdone", "pathsdone"} => _path_num = Minimum({k, MaxDisjoint})

\* C3 for distinct source and target: there the statement holds
C3_DistinctEnds == ~SameEnds => C3_PathNumIsMinKM

FlowOut(n) == Cardinality({e \in Arcs : source(e) = n /\ _flow[e] = 1})

FlowIn(n) == Cardinality({e \in Arcs : target(e) = n /\ _flow[e] = 1})

\* C4: after init(s) and after each augmentation, every arc has flow 0 or
\* 1, every node other than s and t has as much flow in as out, and the net
\* flow out of s and the net flow into t are the number of paths found
\* (none yet after init, where the target is not yet given and no arc has
\* flow).
C4_UnitFlowOfValuePathNum ==
  /\ pc = "inited" => \A e \in Arcs : _flow[e] = 0
  /\ pc \in {"loop", "flowdone", "pathsdone"} =>
       /\ \A e \in Arcs : _flow[e] \in {0, 1}
       /\ \A n \in Nodes \ {_source, _target} : FlowIn(n) = FlowOut(n)
       /\ FlowOut(_source) - FlowIn(_source) = _path_num
       /\ FlowIn(_target) - FlowOut(_target) = _path_num

\* C4 for distinct source and target: there the statement holds
C4_DistinctEnds == ~SameEnds => C4_UnitFlowOfValuePathNum

\* C7: when source and target are the same node, findFlow(t, k) and
\* run(s, t, k) return 0 and pathNum() is 0, for every k.
C7_SameNodeNoPath ==
  pc \in {"flowdone", "pathsdone"} /\ _source = _target => _path_num = 0

\* how many times arc e occurs in the paths
Occurrences(e) ==
  Cardinality({ij \in (1..Len(paths)) \X Arcs :
                 ij[2] <= Len(paths[ij[1]]) /\ paths[ij[1]][ij[2]] = e})

\* the nodes path p visits, in order, from the source on
NodesOf(p) == [j \in 1..(Len(p) + 1) |->
                 IF j = 1 THEN _source ELSE target(p[j - 1])]

\* C5: after init(s), findFlow(t, k), findPaths(): there are pathNum()
\* paths, each a connected arc sequence from s to t, no arc is on two of
\* them, and the multiset union of their arcs is the set of arcs with flow 1.
C5_PathsAreTheFlow ==
  pc = "pathsdone" =>
    /\ Len(paths) = _path_num
    /\ \A i \in 1..Len(paths) :
         LET p == paths[i]
         IN  /\ \A j \in 1..Len(p) : source(p[j]) = NodesOf(p)[j]
             /\ NodesOf(p)[Len(p) + 1] = _target
    /\ \A e \in Arcs : Occurrences(e) = _flow[e]

\* C6: after run(s, t, k) every path(i) is simple: it visits no node more
\* than once.
C6_PathsAreSimple ==
  pc = "pathsdone" =>
    \A i \in 1..Len(paths) :
      \A j1, j2 \in 1..(Len(paths[i]) + 1) :
        NodesOf(paths[i])[j1] = NodesOf(paths[i])[j2] => j1 = j2

\* C8: a search that empties the heap without the target on top returns
\* false and changes no potential and no flow; findFlow then stops with
\* pathNum() < k and runs no further search; when it was the first search,
\* pathNum() = 0, totalLength() = 0 and findPaths() produces no paths.
C8_FailedSearch ==
  /\ [][pc = "dijkstra" /\ HeapEmpty(heap) =>
          /\ _potential' = _potential
          /\ _flow' = _flow
          /\ _path_num' = _path_num
          /\ _path_num' < k'
          /\ pc' = "flowdone"]_vars
  /\ [][pc = "flowdone" /\ _path_num < k =>
          /\ pc' \notin {"loop", "dijkstra", "augment"}
          /\ _path_num' = _path_num
          /\ _path_num = 0 => paths' = << >>]_vars
  /\ [](pc \in {"flowdone", "pathsdone"} /\ _path_num = 0 =>
          /\ totalLength = 0
          /\ pc = "pathsdone" => paths = << >>)

\* a first search has failed after it had processed a node at a distance
\* above 0, and findPaths has run
C8_Witness ==
  /\ pc = "pathsdone"
  /\ _path_num = 0
  /\ k > 0
  /\ \E i \in 1..Len(_proc_nodes) : _dist[_proc_nodes[i]] > 0

\* C9: a second run(s, t, k) on the same instance, digraph and lengths
\* gives the same pathNum(), the same totalLength() and the same set of
\* arcs with flow 1 as the first.
C9_SecondRunSame ==
  runs >= 2 /\ pc = "pathsdone" =>
    /\ _path_num = first.path_num
    /\ totalLength = first.total
    /\ \A e \in Arcs : _flow[e] = 1 <=> first.flow[e] = 1

\* a second run has ended with two paths, after searches in which the heap
\* had to choose among equal priorities
C9_Witness ==
  /\ runs = 2
  /\ pc = "pathsdone"
  /\ _path_num = 2
  /\ oracle # << >>

\* C10: potentials are 0 after init(s), and no search of findFlow makes the
\* potential of a node smaller.
C10_PotentialsIncrease ==
  /\ [](pc = "inited" => \A n \in Nodes : _potential[n] = 0)
  /\ [][pc = "dijkstra" =>
          \A n \in Nodes : _potential'[n] >= _potential[n]]_vars

\* C10, amended: potentials are 0 after init(s), and no search of findFlow
\* makes the potential of a node greater.
C10_PotentialsDecrease ==
  /\ [](pc = "inited" => \A n \in Nodes : _potential[n] = 0)
  /\ [][pc = "dijkstra" =>
          \A n \in Nodes : _potential'[n] <= _potential[n]]_vars

\* a successful search has just lowered the potential of a node
C10_Witness ==
  /\ pc = "augment"
  /\ \E n \in Nodes : _potential[n] < 0

\* C11: findPaths() leaves the flow of every arc, the potential of every
\* node and pathNum() as they are, and with them totalLength(); it only
\* rewrites the paths.
C11_FindPathsFrame ==
  [][pc = "flowdone" =>
       /\ _flow' = _flow
       /\ _potential' = _potential
       /\ _path_num' = _path_num
       /\ TotalLengthOf(_flow') = TotalLengthOf(_flow)]_vars

\* findPaths() has written two paths, and the arcs still have their flow
C11_Witness ==
  /\ pc = "pathsdone"
  /\ Len(paths) = 2
  /\ \A i \in 1..2 : Len(paths[i]) > 0
  /\ \A i \in 1..2 : \A j \in 1..Len(paths[i]) : _flow[paths[i][j]] = 1

\* C12: in findPaths() each of the pathNum() walks from s finds, at every
\* node other than t that it reaches, an outgoing arc whose residual flow is
\* still 1 (the scan never runs past the last arc), and reaches t after
\* finitely many steps: no arc is taken twice, so a walk has at most as many
\* steps as the graph has arcs.
C12_WalksReachTarget ==
  /\ pc # "undefined"
  /\ pc = "flowdone" => WalkPaths(_flow, 0, << >>).ok
  /\ pc = "pathsdone" =>
       /\ Len(paths) = _path_num
       /\ \A i \in 1..Len(paths) :
            /\ Len(paths[i]) <= Len(_graph)
            /\ \A j1, j2 \in 1..Len(paths[i]) :
                 paths[i][j1] = paths[i][j2] => j1 = j2
            /\ _source # _target =>
                 /\ Len(paths[i]) > 0
                 /\ source(paths[i][1]) = _source
                 /\ target(paths[i][Len(paths[i])]) = _target
                 /\ \A j \in 1..(Len(paths[i]) - 1) :
                      target(paths[i][j]) = source(paths[i][j + 1])

\* two walks were made, and in one of them the scan of a node's outgoing
\* arcs went past an arc without residual flow before it found one with
C12_Witness ==
  /\ pc = "pathsdone"
  /\ _source # _target
  /\ Len(paths) = 2
  /\ \E i \in 1..2 : \E j \in 1..Len(paths[i]) :
       Head(OutArcs(source(paths[i][j]))) # paths[i][j]

\* the steps <<u, e>> of the predecessor walk from u: e = _pred[u] is the arc
\* met at u; the walk is cut at a node it has seen
RECURSIVE PredWalk(_, _)
PredWalk(u, seen) ==
  LET e == _pred[u]
  IN  IF e = INVALID \/ u \in seen THEN << >>
      ELSE << <<u, e>> >> \o
           PredWalk(IF u = target(e) THEN source(e) ELSE target(e),
                    seen \cup {u})

\* the node at which the predecessor walk from u stops
RECURSIVE PredWalkEnd(_, _)
PredWalkEnd(u, seen) ==
  LET e == _pred[u]
  IN  IF e = INVALID \/ u \in seen THEN u
      ELSE PredWalkEnd(IF u = target(e) THEN source(e) ELSE target(e),
                       seen \cup {u})

\* C13: after every successful search of findFlow pred[s] is the invalid
\* arc, the predecessor walk from t visits no node twice and ends at s, and
\* every arc e met at a node u is a forward arc (target(e) = u) with flow 0,
\* set to 1 by the walk, or an arc used backwards (source(e) = u) with
\* flow 1, set to 0; entries of pred left by earlier searches do no harm.
C13_PredWalk ==
  /\ pc # "hang"
  /\ pc = "augment" =>
       LET w == PredWalk(_target, {})
           r == SetFlow(_flow, _target, {})
       IN  /\ _pred[_source] = INVALID
           /\ r.ok
           /\ PredWalkEnd(_target, {}) = _source
           /\ \A i, j \in 1..Len(w) : w[i][1] = w[j][1] => i = j
           /\ \A i \in 1..Len(w) : w[i][1] # _source
           /\ \A i \in 1..Len(w) :
                LET u == w[i][1]
                    e == w[i][2]
                IN  \/ target(e) = u /\ _flow[e] = 0 /\ r.flow[e] = 1
                    \/ source(e) = u /\ target(e) # u
                         /\ _flow[e] = 1 /\ r.flow[e] = 0
           /\ \A e \in Arcs :
                (\A i \in 1..Len(w) : w[i][2] # e) => r.flow[e] = _flow[e]

\* a second search has succeeded, its walk uses an arc backwards, and a node
\* that the first path went through was not touched by this search: its
\* entry of pred is the one the first search left
C13_Witness ==
  /\ pc = "augment"
  /\ _path_num = 1
  /\ \E i \in 1..Len(PredWalk(_target, {})) :
       LET u == PredWalk(_target, {})[i][1]
           e == PredWalk(_target, {})[i][2]
       IN  source(e) = u
  /\ \E n \in Nodes : HeapState(heap, n) = PRE_HEAP /\ FlowIn(n) = 1

\* the unreduced length of the steps w of a predecessor walk: +length for a
\* forward arc, -length for an arc used backwards
RECURSIVE WalkLength(_)
WalkLength(w) ==
  IF w = << >> THEN 0
  ELSE LET u == Head(w)[1]
           e == Head(w)[2]
       IN  (IF target(e) = u THEN _length[e] ELSE 0 - _length[e])
             + WalkLength(Tail(w))

\* the unreduced length of the augmenting path the last search found
AugmentingLength == WalkLength(PredWalk(_target, {}))

\* potential(t) is 0 once findFlow(t, k) has begun, and after a successful
\* search potential(t) - potential(s) is the unreduced length of the
\* augmenting path just found
TargetPotential ==
  /\ pc \in {"loop", "dijkstra", "augment", "flowdone", "pathsdone"} =>
       _potential[_target] = 0
  /\ pc = "augment" =>
       _potential[_target] - _potential[_source] = AugmentingLength

\* C14: the potential of the target is never modified: it is 0 after
\* init(s) and after every search; after a successful search
\* potential(t) - potential(s) is the unreduced length of the augmenting
\* path just found; so within one findFlow the augmenting paths come in
\* non-decreasing length.  Before a search potential(t) - potential(s) is
\* the length of the path found by the search before it (0 before the
\* first), as no step between two searches changes a potential.
C14_TargetPotential ==
  [][/\ TargetPotential'
     /\ pc \in {"inited", "loop", "dijkstra", "augment"} /\ pc' # "inited" =>
          _potential'[_target'] = 0 /\ _potential[_target'] = 0
     /\ pc = "dijkstra" /\ pc' = "augment" =>
          AugmentingLength' >= _potential[_target] - _potential[_source]
     /\ pc \in {"augment", "loop"} /\ pc' # "inited" =>
          _potential' = _potential]_vars

\* a second search has succeeded, with a path of positive length that uses
\* an arc backwards
C14_Witness ==
  /\ pc = "augment"
  /\ _path_num = 1
  /\ _source # _target
  /\ AugmentingLength > 0
  /\ \E i \in 1..Len(PredWalk(_target, {})) :
       LET u == PredWalk(_target, {})[i][1]
           e == PredWalk(_target, {})[i][2]
       IN  source(e) = u

====
